---- MODULE Spec2Model ----
(***************************************************************************)
(* dotagent: the tree importer (importAgent), the tree exporter            *)
(* (exportToAgent), the per-tool exporters and the conditional-section     *)
(* synthesizer (generateConditionalRulesSection), as a state machine over  *)
(* a small file system and the caller's rule list; with them importAll,    *)
(* the frontmatter codec (createSafeYamlParser) and the fence-encoded      *)
(* parser (parseFenceEncodedMarkdown), each in a specification of its own. *)
(*                                                                         *)
(* Strings are sequences of atoms.  An atom is an indivisible piece of a   *)
(* file name: one digit, "-", a base name, ".local", ".md", ".txt".  A     *)
(* name is a sequence of atoms, a path a sequence of names, an id a        *)
(* sequence of "/"-separated segments (each a sequence of atoms).          *)
(***************************************************************************)
EXTENDS Integers, Sequences, FiniteSets, TLC

VARIABLES disk, rules, hist, out

vars == <<disk, rules, hist, out>>

(***************************************************************************)
(* Bounds                                                                  *)
(***************************************************************************)
MaxRules == 2

MaxFiles == 2

MaxSteps == 3

(***************************************************************************)
(* Generic helpers                                                         *)
(***************************************************************************)
Range(s) == {s[i] : i \in 1..Len(s)}

Last(s) == s[Len(s)]

Front(s) == SubSeq(s, 1, Len(s) - 1)

IsPrefix(p, s) == Len(p) <= Len(s) /\ SubSeq(s, 1, Len(p)) = p

SelectSeqIdx(s, Test(_)) ==
  LET F[i \in 0..Len(s)] ==
        IF i = 0 THEN <<>>
        ELSE IF Test(i) THEN Append(F[i - 1], i) ELSE F[i - 1]
  IN F[Len(s)]

(***************************************************************************)
(* Atoms and names                                                         *)
(***************************************************************************)
DigitSeq == <<"0", "1", "2", "3", "4", "5", "6", "7", "8", "9">>

IsDigit(c) == c \in Range(DigitSeq)

\* String.prototype.toLowerCase on one atom
LowerAtom(c) == IF c = "Private" THEN "private" ELSE c

ToLowerCase(name) == [i \in 1..Len(name) |-> LowerAtom(name[i])]

\* Primary collation weight of an atom under localeCompare: punctuation
\* before digits before letters.
AtomRank(c) ==
  CASE c = "-"       -> 1
    [] c = ".local"  -> 2
    [] c = ".md"     -> 3
    [] c = ".txt"    -> 4
    [] IsDigit(c)    -> 9 + (CHOOSE i \in 1..10 : DigitSeq[i] = c)
    [] c = "a"       -> 20
    [] c = "api"     -> 21
    [] c = "b"       -> 22
    [] c = "docs"    -> 23
    [] c = "f"       -> 25
    [] c = "overview" -> 29
    [] c = "private" -> 30
    [] c = "Private" -> 31
    [] c = "rule"    -> 32
    [] c = "v2"      -> 38
    [] c = "x"       -> 40
    [] OTHER         -> 50

RECURSIVE LocaleCompare(_, _)
\* a.name.localeCompare(b.name): -1, 0 or 1
LocaleCompare(a, b) ==
  IF a = <<>> /\ b = <<>> THEN 0
  ELSE IF a = <<>> THEN -1
  ELSE IF b = <<>> THEN 1
  ELSE IF AtomRank(Head(a)) < AtomRank(Head(b)) THEN -1
  ELSE IF AtomRank(Head(a)) > AtomRank(Head(b)) THEN 1
  ELSE LocaleCompare(Tail(a), Tail(b))

(***************************************************************************)
(* Paths, ids and the privacy classifier                                   *)
(***************************************************************************)
NoId == <<>>

EmptyId == << <<>> >>

\* Array.prototype.join('/') followed by the reading of the string as
\* "/"-separated segments: the empty string is one empty segment.
JoinSegments(segs) == IF segs = <<>> THEN EmptyId ELSE segs

\* s.replace(/\.md$/, '')
StripMd(name) ==
  IF name # <<>> /\ Last(name) = ".md" THEN Front(name) ELSE name

RECURSIVE LeadingDigits(_)
LeadingDigits(name) ==
  IF name # <<>> /\ IsDigit(Head(name)) THEN 1 + LeadingDigits(Tail(name))
  ELSE 0

\* s.replace(/^\d{2,}-/, '')
StripOrderingPrefix(name) ==
  LET n == LeadingDigits(name)
  IN IF n >= 2 /\ Len(name) > n /\ name[n + 1] = "-"
     THEN SubSeq(name, n + 2, Len(name))
     ELSE name

\* s.replace(/\.local$/, '')
StripLocal(name) ==
  IF name # <<>> /\ Last(name) = ".local" THEN Front(name) ELSE name

\* the ordering prefix removed and the .local marker forgotten
DecodeSegment_PrefixOnly(name) == StripOrderingPrefix(name)

DecodeSegment(name) == StripLocal(StripOrderingPrefix(name))

\* defaultId of importAgent for the file at relPath (a sequence of names)
DefaultId(relPath) ==
  LET stripped == [relPath EXCEPT ![Len(relPath)] = StripMd(relPath[Len(relPath)])]
      segments == [i \in 1..Len(stripped) |-> DecodeSegment(stripped[i])]
      kept     == IF segments[1] = <<"private">> THEN Tail(segments) ELSE segments
  IN JoinSegments(kept)

\* name.includes('.local.'): ".local" directly followed by another "."
HasLocalDot(name) ==
  \E i \in 1..(Len(name) - 1) :
    name[i] = ".local" /\ name[i + 1] \in {".local", ".md", ".txt"}

isPrivateRule(fullPath) ==
  LET lowerPath == [i \in 1..Len(fullPath) |-> ToLowerCase(fullPath[i])]
  IN \/ \E i \in 1..Len(lowerPath) : HasLocalDot(lowerPath[i])
     \/ \E i \in 1..(Len(lowerPath) - 1) : lowerPath[i] = <<"private">>

DigitOf(n) == DigitSeq[n + 1]

RECURSIVE DigitsOf(_)
\* String(n) for n >= 0
DigitsOf(n) ==
  IF n < 10 THEN <<DigitOf(n)>> ELSE Append(DigitsOf(n \div 10), DigitOf(n % 10))

RECURSIVE PadStart(_, _)
\* s.padStart(w, '0'): a string already w long or longer is left as it is
PadStart(ds, w) == IF Len(ds) >= w THEN ds ELSE PadStart(<<"0">> \o ds, w)

\* String(n).padStart(3, '0') + '-'
OrdinalPrefix(n) == Append(PadStart(DigitsOf(n), 3), "-")

(***************************************************************************)
(* Metadata values, rules and file texts                                   *)
(***************************************************************************)
Undefined == [t |-> "undefined", s |-> <<>>]

Null == [t |-> "null", s |-> <<>>]

Bool(b) == [t |-> "bool", s |-> <<IF b THEN "true" ELSE "false">>]

Str(x) == [t |-> "str", s |-> <<x>>]

List(xs) == [t |-> "list", s |-> xs]

\* JavaScript truthiness of a metadata value
Truthy(v) ==
  CASE v.t = "bool" -> v.s = <<"true">>
    [] v.t = "str"  -> v.s # <<"">>
    [] v.t = "list" -> TRUE
    [] OTHER        -> FALSE

\* metadata[k] of an ordered key/value list: undefined when k is not a key
Get(meta, k) ==
  IF \E i \in 1..Len(meta) : meta[i].k = k
  THEN meta[CHOOSE i \in 1..Len(meta) : meta[i].k = k].v
  ELSE Undefined

\* metadata[k] = v: in place when k is a key, appended otherwise
Put(meta, k, v) ==
  IF \E i \in 1..Len(meta) : meta[i].k = k
  THEN [i \in 1..Len(meta) |-> IF meta[i].k = k THEN [k |-> k, v |-> v] ELSE meta[i]]
  ELSE Append(meta, [k |-> k, v |-> v])

\* the keys that are array indices (canonical numeric strings), ascending
IndexKeys == <<"7", "404">>

\* the order in which a JavaScript object enumerates its own keys: the
\* array indices in ascending numeric order, then the other keys in the
\* order they were added
OwnKeyOrder(entries) ==
  LET index == SelectSeqIdx(IndexKeys, LAMBDA i : \E n \in 1..Len(entries) : entries[n].k = IndexKeys[i])
  IN [i \in 1..Len(index) |->
        entries[CHOOSE n \in 1..Len(entries) : entries[n].k = IndexKeys[index[i]]]]
     \o SelectSeq(entries, LAMBDA e : e.k \notin Range(IndexKeys))

\* the metadata as a key -> value map, for comparisons that ignore key order
MetaMap(meta) == {<<meta[i].k, meta[i].v>> : i \in 1..Len(meta)}

\* String.prototype.trim on a content [pre, core, post]
Trim(c) == [pre |-> FALSE, core |-> c.core, post |-> FALSE]

\* the patterns of the model, by the characters the YAML code looks at
StartsWithStar(x) == x \in {"*.ts", "**/*.tsx", "*.tsx,*.ts"}

\* a brace expansion at the start: "{" opens a flow mapping in YAML
StartsWithBrace(x) == x \in {"{src,test}/**"}

ContainsStar(x) == StartsWithStar(x) \/ StartsWithBrace(x) \/ x \in {"src/**", "test/**"}

(***************************************************************************)
(* YAML: js-yaml dump, the glob post-processing of createSafeYamlParser,   *)
(* and the default js-yaml load that gray-matter uses without options      *)
(***************************************************************************)
\* js-yaml quotes a plain string that would not read back as that string
NeedsQuote(x) ==
  StartsWithStar(x) \/ StartsWithBrace(x) \/ x \in {"true", "false", "null", ""}

DumpItem(x) == [q |-> NeedsQuote(x), x |-> x]

\* yaml.dump of one key/value pair
YamlDump(e) ==
  CASE e.v.t = "list" ->
         [k |-> e.k, shape |-> "seq",
          items |-> [i \in 1..Len(e.v.s) |-> DumpItem(e.v.s[i])]]
    [] e.v.t = "str" ->
         [k |-> e.k, shape |-> "scalar", items |-> <<DumpItem(e.v.s[1])>>]
    [] e.v.t = "bool" ->
         [k |-> e.k, shape |-> "scalar", items |-> <<[q |-> FALSE, x |-> e.v.s[1]]>>]
    [] OTHER ->
         [k |-> e.k, shape |-> "scalar", items |-> <<[q |-> FALSE, x |-> "null"]>>]

\* the .replace chain of stringify: quotes are removed from a globs scalar
\* that holds a "*" (first, second and fourth replace) and from the items
\* that start with "*" of every sequence, whatever its key (third and fifth)
StripGlobQuotes(n) ==
  [n EXCEPT !.items =
     [i \in 1..Len(n.items) |->
        IF /\ n.items[i].q
           /\ \/ n.shape = "scalar" /\ n.k = "globs" /\ ContainsStar(n.items[i].x)
              \/ n.shape = "seq" /\ StartsWithStar(n.items[i].x)
        THEN [q |-> FALSE, x |-> n.items[i].x]
        ELSE n.items[i]]]

\* createSafeYamlParser().stringify
SafeStringify(data) == [i \in 1..Len(data) |-> StripGlobQuotes(YamlDump(data[i]))]

\* a plain scalar that starts with "*" is an alias to an unknown anchor; one
\* that starts with "{" is a flow mapping followed by text
YamlItemFails(it) == ~it.q /\ (StartsWithStar(it.x) \/ StartsWithBrace(it.x))

YamlLoadFails(fm) ==
  \E i \in 1..Len(fm) : \E j \in 1..Len(fm[i].items) : YamlItemFails(fm[i].items[j])

YamlLoadScalar(it) ==
  IF it.q THEN Str(it.x)
  ELSE IF it.x \in {"true", "false"} THEN Bool(it.x = "true")
  ELSE IF it.x \in {"null", ""} THEN Null
  ELSE Str(it.x)

\* yaml.load of the frontmatter block (defined when YamlLoadFails is false)
YamlLoad(fm) ==
  OwnKeyOrder([i \in 1..Len(fm) |->
     [k |-> fm[i].k,
      v |-> IF fm[i].shape = "seq"
            THEN List([j \in 1..Len(fm[i].items) |-> fm[i].items[j].x])
            ELSE YamlLoadScalar(fm[i].items[1])]])

\* the two replaces of parse: double quotes are put around the value of a
\* key and around a sequence item that starts with "*" and is not quoted
QuoteStars(fm) ==
  [i \in 1..Len(fm) |->
     [fm[i] EXCEPT !.items =
        [j \in 1..Len(fm[i].items) |->
           IF ~fm[i].items[j].q /\ StartsWithStar(fm[i].items[j].x)
           THEN [q |-> TRUE, x |-> fm[i].items[j].x]
           ELSE fm[i].items[j]]]]

\* createSafeYamlParser().parse throws: the load of the processed text
\* throws, and so does the load of the text as it was
SafeParseFails(fm) == YamlLoadFails(QuoteStars(fm)) /\ YamlLoadFails(fm)

\* createSafeYamlParser().parse (defined when SafeParseFails is false)
SafeParse(fm) == IF YamlLoadFails(QuoteStars(fm)) THEN YamlLoad(fm) ELSE YamlLoad(QuoteStars(fm))

\* matter.stringify(content, data, grayMatterOptions): the id is kept apart
\* from the other keys in a file text; the body ends with a newline
MatterStringify(content, data) ==
  [id |-> NoId, fm |-> SafeStringify(data),
   body |-> [pre |-> content.pre, core |-> content.core, post |-> TRUE]]

(***************************************************************************)
(* exportToAgent                                                           *)
(***************************************************************************)
\* rule.metadata.id || 'rule'
IdOrRule(id) == IF id = NoId \/ id = EmptyId THEN <<"rule">> ELSE id[1]

\* path.join drops the empty directory segments
DropEmpty(dirs) == SelectSeq(dirs, LAMBDA d : d # <<>>)

RECURSIVE ResolveDots(_, _)
\* path.join resolves "." and "..": a ".." takes back the folder before
\* it, and stays when there is none, so that the path leaves its base
ResolveDots(done, rest) ==
  IF rest = <<>> THEN done
  ELSE IF Head(rest) = <<".">> THEN ResolveDots(done, Tail(rest))
  ELSE IF Head(rest) = <<"..">> /\ done # <<>> /\ Last(done) # <<"..">>
  THEN ResolveDots(Front(done), Tail(rest))
  ELSE ResolveDots(Append(done, Head(rest)), Tail(rest))

\* the folders of join(agentDir, ...parts), relative to agentDir
NormalizeDirs(dirs) == ResolveDots(<<>>, DropEmpty(dirs))

\* rule.metadata.id && rule.metadata.id.includes('/')
IsNested(id) == Len(id) > 1

\* the folders of the id forgotten: every rule written at the top level
TargetPath_Flat(rule, topIndex) ==
  IF Truthy(Get(rule.meta, "private")) /\ ~IsNested(rule.id)
  THEN << <<"private">>, OrdinalPrefix(topIndex) \o IdOrRule(rule.id) \o <<".md">> >>
  ELSE << (IF IsNested(rule.id) THEN Last(rule.id) ELSE IdOrRule(rule.id)) \o <<".md">> >>

\* the path, relative to <outputDir>/.agent, that exportToAgent writes a rule
\* to when topIndex is the ordinal of the next private top-level rule
TargetPath(rule, topIndex) ==
  IF IsNested(rule.id)
  THEN Append(NormalizeDirs(Front(rule.id)), Last(rule.id) \o <<".md">>)
  ELSE IF Truthy(Get(rule.meta, "private"))
  THEN << <<"private">>, OrdinalPrefix(topIndex) \o IdOrRule(rule.id) \o <<".md">> >>
  ELSE << IdOrRule(rule.id) \o <<".md">> >>

AllowList == <<"description", "alwaysApply", "globs", "manual", "scope", "priority", "triggers">>

\* the extension keys copied without the test for private: false
FrontMatterBase_KeepFalse(meta) ==
  LET Allowed(i) ==
        LET v == Get(meta, AllowList[i])
        IN IF AllowList[i] = "alwaysApply" THEN v.t # "undefined"
           ELSE v.t \notin {"undefined", "null"}
      Other(i) ==
        /\ meta[i].k \notin Range(AllowList) \cup {"id"}
        /\ meta[i].v.t \notin {"undefined", "null"}
      first == SelectSeqIdx(AllowList, Allowed)
      rest  == SelectSeqIdx(meta, Other)
  IN OwnKeyOrder([i \in 1..Len(first) |-> [k |-> AllowList[first[i]], v |-> Get(meta, AllowList[first[i]])]]
                 \o [i \in 1..Len(rest) |-> meta[rest[i]]])

\* frontMatterBase: the allow-listed keys are added in their fixed order,
\* then the other keys in the order of the metadata object; yaml.dump
\* writes the keys in the order the object enumerates them
FrontMatterBase(meta) ==
  LET Allowed(i) ==
        LET v == Get(meta, AllowList[i])
        IN IF AllowList[i] = "alwaysApply" THEN v.t # "undefined"
           ELSE v.t \notin {"undefined", "null"}
      Other(i) ==
        /\ meta[i].k \notin Range(AllowList) \cup {"id"}
        /\ meta[i].v.t \notin {"undefined", "null"}
        /\ ~(meta[i].k = "private" /\ meta[i].v = Bool(FALSE))
      first == SelectSeqIdx(AllowList, Allowed)
      rest  == SelectSeqIdx(meta, Other)
  IN OwnKeyOrder([i \in 1..Len(first) |-> [k |-> AllowList[first[i]], v |-> Get(meta, AllowList[first[i]])]]
                 \o [i \in 1..Len(rest) |-> meta[rest[i]]])

\* the ordinal taken from the position in the list
TopIndexAt_ListIndex(rs, n) == n + 1

\* topIndex after the first n rules: one more than the number of private
\* top-level rules among them
TopIndexAt(rs, n) ==
  1 + Cardinality({i \in 1..n : ~IsNested(rs[i].id) /\ Truthy(Get(rs[i].meta, "private"))})

\* privacy consulted before the shape of the id: every private rule is
\* placed under private/ with an ordinal
WrittenPaths_PrivateFirst(rs) ==
  [i \in 1..Len(rs) |->
     IF Truthy(Get(rs[i].meta, "private"))
     THEN << <<"private">>, OrdinalPrefix(i) \o Last(rs[i].id) \o <<".md">> >>
     ELSE TargetPath(rs[i], 1)]

\* the paths written by the forEach of exportToAgent, in order
WrittenPaths(rs) == [i \in 1..Len(rs) |-> TargetPath(rs[i], TopIndexAt(rs, i - 1))]

RECURSIVE WriteRules_KeepExisting(_, _, _)
RECURSIVE WriteRules(_, _, _)
\* writeFileSync with the flag wx, its error swallowed: a file that is
\* there already is left as it is
WriteRules_KeepExisting(files, rs, n) ==
  IF n = 0 THEN files
  ELSE LET before == WriteRules_KeepExisting(files, rs, n - 1)
           path   == WrittenPaths(rs)[n]
           text   == MatterStringify(rs[n].content, FrontMatterBase(rs[n].meta))
       IN [p \in (DOMAIN before) \cup {path} |->
             IF p = path /\ path \notin DOMAIN before THEN text ELSE before[p]]

\* the files after the first n rules were written over files
WriteRules(files, rs, n) ==
  IF n = 0 THEN files
  ELSE LET before == WriteRules(files, rs, n - 1)
           path   == WrittenPaths(rs)[n]
           text   == MatterStringify(rs[n].content, FrontMatterBase(rs[n].meta))
       IN [p \in (DOMAIN before) \cup {path} |-> IF p = path THEN text ELSE before[p]]

(***************************************************************************)
(* importAgent                                                             *)
(***************************************************************************)
\* the names readdirSync returns for the directory dir
Entries(files, dir) ==
  {p[Len(dir) + 1] : p \in {q \in DOMAIN files : IsPrefix(dir, q) /\ Len(q) > Len(dir)}}

IsDirectory(files, p) == \E q \in DOMAIN files : IsPrefix(p, q) /\ Len(q) > Len(p)

IsFile(files, p) == p \in DOMAIN files

EndsWithMd(name) == name # <<>> /\ Last(name) = ".md"

\* the comparator given to entries.sort
CompareEntries(files, dir, a, b) == LocaleCompare(a, b)

RECURSIVE SortEntries(_, _, _)
\* entries.sort(comparator), smallest first
SortEntries(files, dir, names) ==
  IF names = {} THEN <<>>
  ELSE LET m == CHOOSE x \in names :
                  \A y \in names : CompareEntries(files, dir, x, y) <= 0
       IN <<m>> \o SortEntries(files, dir, names \ {m})

RECURSIVE findMarkdownFiles(_, _)
RECURSIVE VisitEntries(_, _, _)
\* the for loop over the sorted entries of dir
VisitEntries(files, dir, entries) ==
  IF entries = <<>> THEN <<>>
  ELSE LET p    == Append(dir, Head(entries))
           here == IF IsDirectory(files, p) THEN findMarkdownFiles(files, p)
                   ELSE IF IsFile(files, p) /\ EndsWithMd(Head(entries)) THEN <<p>>
                   ELSE <<>>
       IN here \o VisitEntries(files, dir, Tail(entries))

\* the relative paths of the .md files, in the order their rules are pushed
findMarkdownFiles(files, dir) ==
  VisitEntries(files, dir, SortEntries(files, dir, Entries(files, dir)))

\* the resolution with the path consulted before an explicit private: false
ResolvePrivate_PathWins(data, isPrivateFile) ==
  IF Get(data, "private") = Bool(TRUE) \/ isPrivateFile
  THEN Put(data, "private", Bool(TRUE))
  ELSE data

\* metadata.private after the privacy resolution of importAgent
ResolvePrivate(data, isPrivateFile) ==
  IF \/ Get(data, "private") = Bool(TRUE)
     \/ (Get(data, "private").t = "undefined" /\ isPrivateFile)
  THEN Put(data, "private", Bool(TRUE))
  ELSE data

\* data.id || defaultId alone: an empty frontmatter id gives way to the path
ImportId_OrDefault(text, relPath) ==
  IF text.id # NoId /\ text.id # EmptyId THEN text.id ELSE DefaultId(relPath)

\* { id: data.id || defaultId, ...data }.id: the spread puts data.id back
\* whenever the frontmatter has the key
ImportId(text, relPath) ==
  IF text.id # NoId THEN text.id ELSE DefaultId(relPath)

\* the rule importAgent pushes for the file text at root \o relPath
ImportFile(root, relPath, text) ==
  LET data == YamlLoad(text.fm)
  IN [id      |-> ImportId(text, relPath),
      meta    |-> ResolvePrivate(data, isPrivateRule(root \o relPath)),
      content |-> Trim(text.body)]

\* matter(content) throws for some visited file
ImportThrows(files) ==
  \E p \in Range(findMarkdownFiles(files, <<>>)) : YamlLoadFails(files[p].fm)

ImportedRules(root, files) ==
  LET paths == findMarkdownFiles(files, <<>>)
  IN [i \in 1..Len(paths) |-> ImportFile(root, paths[i], files[paths[i]])]

(***************************************************************************)
(* generateConditionalRulesSection and the per-tool exporters.  An output  *)
(* is a sequence of lines [kind, id, text, fm]: id is the rule id (or the  *)
(* file path) a line names, text its string, fm a frontmatter block.       *)
(***************************************************************************)
Line(kind, id, text) == [kind |-> kind, id |-> id, text |-> text, fm |-> <<>>]

RECURSIVE Flatten(_)
Flatten(ss) == IF ss = <<>> THEN <<>> ELSE Head(ss) \o Flatten(Tail(ss))

\* rule.metadata.description as a string ("" when it is not a string)
DescriptionOf(rule) ==
  LET d == Get(rule.meta, "description") IN IF d.t = "str" THEN d.s[1] ELSE ""

IsConditional(rule) == Get(rule.meta, "alwaysApply") = Bool(FALSE)

\* the first if/else-if of the forEach: scope wins, then a description of
\* a rule that is not in a folder
InRulesWithScope(rule) == Truthy(Get(rule.meta, "scope"))

InRulesWithDescription(rule) ==
  /\ ~InRulesWithScope(rule)
  /\ Truthy(Get(rule.meta, "description"))
  /\ ~IsNested(rule.id)

\* a list of patterns taken for its first pattern only
ScopesOf_First(rule) == <<Get(rule.meta, "scope").s[1]>>

\* Array.isArray(scope) ? scope : [scope]
ScopesOf(rule) ==
  LET sc == Get(rule.meta, "scope") IN IF sc.t = "list" THEN sc.s ELSE <<sc.s[1]>>

\* " - <description>" of a link, or nothing
LinkSuffix(rule) == IF Truthy(Get(rule.meta, "description")) THEN DescriptionOf(rule) ELSE ""

ScopeLines(rule) ==
  Flatten([i \in 1..Len(ScopesOf(rule)) |->
             << Line("when-files", NoId, ScopesOf(rule)[i]),
                Line("link", rule.id, LinkSuffix(rule)),
                Line("blank", NoId, "") >>])

DescriptionLines(rule) ==
  << Line("when-topic", NoId, DescriptionOf(rule)),
     Line("link", rule.id, ""),
     Line("blank", NoId, "") >>

\* the keys of rulesByFolder, in the order the folders are first met
FolderKeys(cond) ==
  LET firsts == SelectSeqIdx(cond, LAMBDA i :
                  /\ IsNested(cond[i].id)
                  /\ \A j \in 1..(i - 1) : ~(IsNested(cond[j].id) /\ cond[j].id[1] = cond[i].id[1]))
  IN [i \in 1..Len(firsts) |-> cond[firsts[i]].id[1]]

\* the section of one folder: its title is the capitalized folder name
FolderLines(cond, folder) ==
  LET unhandled == SelectSeq(cond, LAMBDA r :
                     /\ IsNested(r.id) /\ r.id[1] = folder
                     /\ ~InRulesWithScope(r) /\ ~InRulesWithDescription(r))
  IN IF unhandled = <<>> THEN <<>>
     ELSE << Line("folder-title", <<folder>>, ""), Line("blank", NoId, "") >>
          \o [i \in 1..Len(unhandled) |-> Line("link", unhandled[i].id, LinkSuffix(unhandled[i]))]
          \o << Line("blank", NoId, "") >>

generateConditionalRulesSection(rs) ==
  LET conditionalRules == SelectSeq(rs, IsConditional)
      withScope        == SelectSeq(conditionalRules, InRulesWithScope)
      withDescription  == SelectSeq(conditionalRules, InRulesWithDescription)
      folders          == FolderKeys(conditionalRules)
  IN IF conditionalRules = <<>> THEN <<>>
     ELSE << Line("title", NoId, "Context-Specific Rules"), Line("blank", NoId, "") >>
          \o Flatten([i \in 1..Len(withScope) |-> ScopeLines(withScope[i])])
          \o Flatten([i \in 1..Len(withDescription) |-> DescriptionLines(withDescription[i])])
          \o Flatten([i \in 1..Len(folders) |-> FolderLines(conditionalRules, folders[i])])

\* the filter left out
FilterPrivate_KeepAll(rs, includePrivate) == rs

\* rules.filter(rule => !rule.metadata.private || options?.includePrivate)
FilterPrivate(rs, includePrivate) ==
  SelectSeq(rs, LAMBDA r : ~Truthy(Get(r.meta, "private")) \/ includePrivate)

\* one always-apply rule in a single-file output: an optional header made
\* of its description, then its content
Inlined(rule, header) ==
  (IF header # "none" /\ Truthy(Get(rule.meta, "description"))
   THEN <<Line(header, NoId, DescriptionOf(rule))>> ELSE <<>>)
  \o <<Line("body", NoId, rule.content.core)>>

RECURSIVE JoinLines(_, _)
\* Array.prototype.join with a separator line between the parts
JoinLines(parts, sep) ==
  IF parts = <<>> THEN <<>>
  ELSE IF Len(parts) = 1 THEN parts[1]
  ELSE parts[1] \o <<Line("sep", NoId, sep)>> \o JoinLines(Tail(parts), sep)

\* the body shared by exportToCopilot, exportToCline (single file),
\* exportToWindsurf, exportToZed, exportToCodex, exportToAider,
\* exportToClaudeCode and exportToQodo
SingleFile(rs, includePrivate, header, sep) ==
  LET filteredRules      == FilterPrivate(rs, includePrivate)
      alwaysApplyRules   == SelectSeq(filteredRules, LAMBDA r : ~IsConditional(r))
      conditionalSection == generateConditionalRulesSection(filteredRules)
      mainContent        == JoinLines([i \in 1..Len(alwaysApplyRules) |->
                                         Inlined(alwaysApplyRules[i], header)], sep)
  IN IF conditionalSection # <<>>
     THEN mainContent \o <<Line("sep", NoId, sep)>> \o conditionalSection
     ELSE mainContent

\* exportToGemini
GeminiFile(rs, includePrivate) ==
  LET filteredRules == FilterPrivate(rs, includePrivate)
  IN JoinLines([i \in 1..Len(filteredRules) |-> Inlined(filteredRules[i], "h1")], "")

FileLine(path, text) == [kind |-> "file", id |-> path, text |-> text.body.core, fm |-> text.fm]

\* the path exportToCursor and exportToAmazonQ write a rule to
FlatPath(rule, ext, strip) ==
  IF IsNested(rule.id)
  THEN Append(NormalizeDirs(Front(rule.id)), Last(rule.id) \o <<ext>>)
  ELSE LET name == IdOrRule(rule.id)
       IN << (IF strip /\ name # <<>> /\ Head(name) = "amazonq-" THEN Tail(name) ELSE name)
             \o <<ext>> >>

\* exportToCursor: one .mdc file per rule, with the frontmatter of exportToAgent
CursorFiles(rs, includePrivate) ==
  LET filteredRules == FilterPrivate(rs, includePrivate)
  IN [i \in 1..Len(filteredRules) |->
        FileLine(FlatPath(filteredRules[i], ".mdc", FALSE),
                 MatterStringify(filteredRules[i].content, FrontMatterBase(filteredRules[i].meta)))]

PlainText(content) == [id |-> NoId, fm |-> <<>>, body |-> content]

\* exportToAmazonQ: one .md file per rule, without frontmatter
AmazonQFiles(rs, includePrivate) ==
  LET filteredRules == FilterPrivate(rs, includePrivate)
  IN [i \in 1..Len(filteredRules) |->
        FileLine(FlatPath(filteredRules[i], ".md", TRUE), PlainText(filteredRules[i].content))]

\* String(index + 1).padStart(2, '0') + '-'
OrdinalPrefix2(n) == Append(PadStart(DigitsOf(n), 2), "-")

\* exportToCline in directory mode: the file name is made of the whole id,
\* so writeFileSync throws (no such directory) at the first id with a "/"
ClineWritable(rs, includePrivate) ==
  LET filteredRules == FilterPrivate(rs, includePrivate)
      nested        == {i \in 1..Len(filteredRules) : IsNested(filteredRules[i].id)}
  IN IF nested = {} THEN Len(filteredRules)
     ELSE (CHOOSE i \in nested : \A j \in nested : i <= j) - 1

ClineFiles(rs, includePrivate) ==
  LET filteredRules == FilterPrivate(rs, includePrivate)
  IN [i \in 1..ClineWritable(rs, includePrivate) |->
        FileLine(<< OrdinalPrefix2(i) \o IdOrRule(filteredRules[i].id) \o <<".md">> >>,
                 PlainText(filteredRules[i].content))]

(***************************************************************************)
(* The inputs: rule lists a caller passes, and directory trees on disk     *)
(***************************************************************************)
RepoRoot == << <<"repo">>, <<".agent">> >>

OutRoot == << <<"out">>, <<".agent">> >>

Roots == {RepoRoot, OutRoot}

NoFiles == [p \in {} |-> 0]

Plain(core) == [pre |-> FALSE, core |-> core, post |-> FALSE]

Padded(core) == [pre |-> TRUE, core |-> core, post |-> TRUE]

KV(k, v) == [k |-> k, v |-> v]

RuleIds ==
  { << <<"a">> >>, << <<"b">> >>,
    << <<"0", "1", "-", "a">> >>,
    << <<"a", ".local">> >>,
    << <<"f">>, <<"a">> >>,
    << <<"private">>, <<"a">> >>,
    EmptyId }

RuleShapes ==
  { [meta |-> <<>>, content |-> Plain("text")],
    [meta |-> <<KV("private", Bool(TRUE))>>, content |-> Padded("secret")],
    [meta |-> <<KV("private", Bool(FALSE)), KV("description", Str("d"))>>,
     content |-> Plain("text")],
    [meta |-> <<KV("globs", Str("*.ts")), KV("alwaysApply", Bool(FALSE))>>,
     content |-> Plain("typed")] }

RuleUniverse ==
  {[id |-> i, meta |-> sh.meta, content |-> sh.content] : i \in RuleIds, sh \in RuleShapes}

DistinctIds(rs) == \A i, j \in 1..Len(rs) : i # j => rs[i].id # rs[j].id

RuleLists ==
  UNION {{rs \in [1..n -> RuleUniverse] : DistinctIds(rs)} : n \in 1..MaxRules}

TreePaths ==
  { << <<"a", ".md">> >>,
    << <<"b", ".md">> >>,
    << <<"a", ".local", ".md">> >>,
    << <<"0", "1", "-", "a", ".md">> >>,
    << <<"0", "1", "-", "0", "2", "-", "a", ".md">> >>,
    << <<"private">>, <<"a", ".md">> >>,
    << <<"f">>, <<"a", ".md">> >>,
    << <<"docs">>, <<"api">>, <<"v2">>, <<"overview", ".md">> >>,
    << <<"a", ".txt">> >> }

FileText(id, fm) == [id |-> id, fm |-> fm, body |-> Padded("body")]

Scalar(k, q, x) == [k |-> k, shape |-> "scalar", items |-> <<[q |-> q, x |-> x]>>]

CommonTexts ==
  { FileText(NoId, <<>>),
    FileText(NoId, <<Scalar("private", FALSE, "true")>>),
    FileText(NoId, <<Scalar("private", FALSE, "false")>>) }

ExtraTexts ==
  { FileText(<< <<"0", "1", "-", "x">> >>, <<>>),
    FileText(EmptyId, <<>>),
    FileText(<< <<"x">> >>, <<Scalar("globs", TRUE, "*.ts")>>) }

TextsAt(p) == IF p = << <<"a", ".md">> >> THEN CommonTexts \cup ExtraTexts ELSE CommonTexts

Trees ==
  UNION {UNION {{t \in [ps -> CommonTexts \cup ExtraTexts] : \A p \in ps : t[p] \in TextsAt(p)}
                : ps \in {qs \in SUBSET TreePaths : Cardinality(qs) = n}}
         : n \in 1..MaxFiles}

(***************************************************************************)
(* The state machine                                                       *)
(***************************************************************************)
Missing == [exists |-> FALSE, files |-> NoFiles]

\* one call, as the history remembers it: the list is the argument of an
\* export and the result of an import; paths are the files an export wrote
Event(op, dir, list, threw, wasEmpty, paths, includePrivate) ==
  [op |-> op, dir |-> dir, list |-> list, threw |-> threw,
   wasEmpty |-> wasEmpty, paths |-> paths, includePrivate |-> includePrivate]

\* a caller holds a rule list and nothing is on disk
InitRules ==
  /\ rules \in RuleLists
  /\ disk = [r \in Roots |-> Missing]

\* a repository holds a .agent tree and the caller holds no rules yet
InitTree ==
  /\ rules = <<>>
  /\ \E t \in Trees :
       disk = [r \in Roots |-> IF r = RepoRoot THEN [exists |-> TRUE, files |-> t] ELSE Missing]

Init ==
  /\ InitRules \/ InitTree
  /\ hist = <<>>
  /\ out = <<>>

\* importAgent(agentDir), called as importAll does: only for a directory
\* that exists.  A YAML error in any file makes the whole call throw.
ImportAgent(agentDir) ==
  /\ Len(hist) < MaxSteps
  /\ disk[agentDir].exists
  /\ LET files == disk[agentDir].files
         threw == ImportThrows(files)
         got   == IF threw THEN <<>> ELSE ImportedRules(agentDir, files)
     IN /\ rules' = IF threw THEN rules ELSE got
        /\ hist' = Append(hist, Event("import", agentDir, got, threw, files = NoFiles, <<>>, FALSE))
  /\ UNCHANGED <<disk, out>>

\* exportToAgent(rules, outputDir, options) with <outputDir>/.agent =
\* agentDir; the options are not read
ExportToAgent(agentDir, includePrivate) ==
  /\ Len(hist) < MaxSteps
  /\ LET files == disk[agentDir].files
     IN /\ disk' = [disk EXCEPT ![agentDir] =
                      [exists |-> TRUE, files |-> WriteRules(files, rules, Len(rules))]]
        /\ hist' = Append(hist, Event("export", agentDir, rules, FALSE,
                                      files = NoFiles, WrittenPaths(rules), includePrivate))
  /\ UNCHANGED <<rules, out>>

Next ==
  \/ \E d \in Roots : ImportAgent(d)
  \/ ExportToAgent(OutRoot, FALSE)

Spec == Init /\ [][Next]_vars

(***************************************************************************)
(* The per-tool exporters, each called once on a caller's rule list        *)
(***************************************************************************)
Bodies == <<"body1", "body2", "body3", "body4">>

ScopeValues == {Undefined, Str("src/**"), List(<<"src/**", "test/**">>)}

\* the conditional rules: every combination the synthesizer tells apart
ConditionalShapes ==
  {[id |-> i,
    meta |-> <<KV("alwaysApply", Bool(FALSE))>>
             \o (IF sc = Undefined THEN <<>> ELSE <<KV("scope", sc)>>)
             \o (IF d = "" THEN <<>> ELSE <<KV("description", Str(d))>>)]
     : i \in {<< <<"a">> >>, << <<"f">>, <<"a">> >>}, sc \in ScopeValues, d \in {"", "d"}}

OtherShapes ==
  { [id |-> << <<"b">> >>,
     meta |-> <<KV("alwaysApply", Bool(TRUE)), KV("description", Str("d"))>>],
    [id |-> << <<"b">> >>, meta |-> <<KV("private", Bool(TRUE))>>],
    [id |-> << <<"f">>, <<"b">> >>,
     meta |-> <<KV("private", Bool(TRUE)), KV("alwaysApply", Bool(FALSE)),
                KV("scope", Str("src/**"))>>],
    [id |-> << <<"b">> >>,
     meta |-> <<KV("private", Bool(FALSE)), KV("alwaysApply", Bool(TRUE))>>],
    [id |-> << <<"b">> >>,
     meta |-> <<KV("private", Bool(TRUE)), KV("alwaysApply", Bool(FALSE)),
                KV("description", Str("d"))>>],
    [id |-> << <<"b">> >>,
     meta |-> <<KV("404", Str("d")), KV("owner", Str("d")), KV("description", Str("d"))>>],
    [id |-> << <<"..">>, <<"b">> >>, meta |-> <<KV("description", Str("d"))>>] }

ExportShapes == ConditionalShapes \cup OtherShapes

\* the i-th rule of a list carries the i-th body, so a body names its rule
ExportLists ==
  UNION {{[i \in 1..n |-> [id |-> sh[i].id, meta |-> sh[i].meta, content |-> Plain(Bodies[i])]]
            : sh \in [1..n -> ExportShapes]}
         : n \in 1..MaxRules}

InitExport ==
  /\ rules \in ExportLists
  /\ disk = [r \in Roots |-> Missing]
  /\ hist = <<>>
  /\ out = <<>>

Output(target, includePrivate, lines, threw) ==
  [target |-> target, includePrivate |-> includePrivate, lines |-> lines, threw |-> threw]

\* one call of a per-tool exporter that leaves the .agent directory alone
Emit(output) ==
  /\ out = <<>>
  /\ hist = <<>>
  /\ out' = <<output>>
  /\ UNCHANGED <<disk, rules, hist>>

ExportToCopilot(includePrivate) ==
  Emit(Output("copilot", includePrivate, SingleFile(rules, includePrivate, "none", "---"), FALSE))

ExportToCursor(includePrivate) ==
  Emit(Output("cursor", includePrivate, CursorFiles(rules, includePrivate), FALSE))

\* outputPath.endsWith('.clinerules') selects the single-file mode
ExportToCline(singleFile, includePrivate) ==
  Emit(IF singleFile
       THEN Output("cline", includePrivate, SingleFile(rules, includePrivate, "h2", ""), FALSE)
       ELSE Output("cline-dir", includePrivate, ClineFiles(rules, includePrivate),
                   ClineWritable(rules, includePrivate) < Len(FilterPrivate(rules, includePrivate))))

ExportToWindsurf(includePrivate) ==
  Emit(Output("windsurf", includePrivate, SingleFile(rules, includePrivate, "none", ""), FALSE))

ExportToZed(includePrivate) ==
  Emit(Output("zed", includePrivate, SingleFile(rules, includePrivate, "none", ""), FALSE))

ExportToCodex(includePrivate) ==
  Emit(Output("codex", includePrivate, SingleFile(rules, includePrivate, "h1", ""), FALSE))

ExportToAider(includePrivate) ==
  Emit(Output("aider", includePrivate, SingleFile(rules, includePrivate, "none", ""), FALSE))

ExportToClaudeCode(includePrivate) ==
  Emit(Output("claude", includePrivate, SingleFile(rules, includePrivate, "h1", ""), FALSE))

ExportToGemini(includePrivate) ==
  Emit(Output("gemini", includePrivate, GeminiFile(rules, includePrivate), FALSE))

ExportToQodo(includePrivate) ==
  Emit(Output("qodo", includePrivate, SingleFile(rules, includePrivate, "h1", "---"), FALSE))

ExportToAmazonQ(includePrivate) ==
  Emit(Output("amazonq", includePrivate, AmazonQFiles(rules, includePrivate), FALSE))

\* exportToAgent called once, with options
ExportToAgentWith(includePrivate) ==
  /\ out = <<>>
  /\ hist = <<>>
  /\ ExportToAgent(OutRoot, includePrivate)

\* exportAll(rules, repoPath, dryRun, options) with <repoPath>/.agent = OutRoot
ExportAll(dryRun, includePrivate) ==
  /\ out = <<>>
  /\ hist = <<>>
  /\ IF dryRun
     THEN /\ hist' = <<Event("exportAll-dry", OutRoot, rules, FALSE, TRUE, <<>>, includePrivate)>>
          /\ UNCHANGED <<disk, rules, out>>
     ELSE /\ disk' = [disk EXCEPT ![OutRoot] =
                        [exists |-> TRUE,
                         files |-> WriteRules(disk[OutRoot].files, rules, Len(rules))]]
          /\ hist' = <<Event("exportAll", OutRoot, rules, FALSE,
                             disk[OutRoot].files = NoFiles, WrittenPaths(rules),
                             includePrivate)>>
          /\ out' = << Output("copilot", includePrivate, SingleFile(rules, includePrivate, "none", "---"), FALSE),
                       Output("cursor", includePrivate, CursorFiles(rules, includePrivate), FALSE),
                       Output("cline", includePrivate, SingleFile(rules, includePrivate, "h2", ""), FALSE),
                       Output("windsurf", includePrivate, SingleFile(rules, includePrivate, "none", ""), FALSE),
                       Output("zed", includePrivate, SingleFile(rules, includePrivate, "none", ""), FALSE),
                       Output("codex", includePrivate, SingleFile(rules, includePrivate, "h1", ""), FALSE),
                       Output("aider", includePrivate, SingleFile(rules, includePrivate, "none", ""), FALSE),
                       Output("claude", includePrivate, SingleFile(rules, includePrivate, "h1", ""), FALSE),
                       Output("gemini", includePrivate, GeminiFile(rules, includePrivate), FALSE),
                       Output("qodo", includePrivate, SingleFile(rules, includePrivate, "h1", "---"), FALSE),
                       Output("amazonq", includePrivate, AmazonQFiles(rules, includePrivate), FALSE) >>
          /\ UNCHANGED rules

NextExport ==
  \E includePrivate \in BOOLEAN :
    \/ ExportToAgentWith(includePrivate)
    \/ ExportToCopilot(includePrivate)
    \/ ExportToCursor(includePrivate)
    \/ \E singleFile \in BOOLEAN : ExportToCline(singleFile, includePrivate)
    \/ ExportToWindsurf(includePrivate)
    \/ ExportToZed(includePrivate)
    \/ ExportToCodex(includePrivate)
    \/ ExportToAider(includePrivate)
    \/ ExportToClaudeCode(includePrivate)
    \/ ExportToGemini(includePrivate)
    \/ ExportToQodo(includePrivate)
    \/ ExportToAmazonQ(includePrivate)
    \/ \E dryRun \in BOOLEAN : ExportAll(dryRun, includePrivate)

SpecExport == InitExport /\ [][NextExport]_vars

(***************************************************************************)
(* The ordinals of a long export.  exportToAgent gives the k-th private    *)
(* top-level rule of its list the ordinal k, whatever the length of the    *)
(* list.  A slice of such an export is followed here: the two iterations   *)
(* of the forEach that write the k-th and the (k+1)-th private top-level   *)
(* rule.  The files of the other rules are left out of the tree; they do   *)
(* not change the order in which the importer visits these two.            *)
(***************************************************************************)
MaxOrdinal == 1000

SliceIds == { << <<"a">> >>, << <<"b">> >>, << <<"x">> >> }

\* two private top-level rules, told apart by their bodies
SliceLists ==
  {<< [id |-> i, meta |-> <<KV("private", Bool(TRUE))>>, content |-> Plain(Bodies[1])],
      [id |-> j, meta |-> <<KV("private", Bool(TRUE))>>, content |-> Plain(Bodies[2])] >>
     : i \in SliceIds, j \in SliceIds}

InitOrdinal ==
  /\ rules \in SliceLists
  /\ disk = [r \in Roots |-> Missing]
  /\ hist = <<>>
  /\ out = <<>>

\* the iterations of the forEach of exportToAgent with topIndex = k and
\* topIndex = k + 1, into a directory that holds nothing of theirs yet
ExportSlice(k) ==
  /\ hist = <<>>
  /\ LET paths == <<TargetPath(rules[1], k), TargetPath(rules[2], k + 1)>>
         texts == [i \in 1..2 |-> MatterStringify(rules[i].content, FrontMatterBase(rules[i].meta))]
     IN /\ disk' = [disk EXCEPT ![OutRoot] =
                      [exists |-> TRUE,
                       files |-> [p \in {paths[1], paths[2]} |->
                                    IF p = paths[2] THEN texts[2] ELSE texts[1]]]]
        /\ hist' = <<Event("export-slice", OutRoot, rules, FALSE, TRUE, paths, FALSE)>>
  /\ UNCHANGED <<rules, out>>

NextOrdinal ==
  \/ \E k \in 1..MaxOrdinal : ExportSlice(k)
  \/ ImportAgent(OutRoot)

SpecOrdinal == InitOrdinal /\ [][NextOrdinal]_vars

(***************************************************************************)
(* importAll: the sources it looks for under repoPath, in the order of its *)
(* if-blocks.  On disk a source is missing, or it is there and its         *)
(* importer returns, or it is there and its importer throws: importAgent   *)
(* throws on a frontmatter that does not parse, the importers of the       *)
(* single files throw when readFileSync does (the path is a directory, or  *)
(* is not readable).                                                       *)
(***************************************************************************)
MaxSources == 3

\* [path under repoPath, format of the ImportResult]
Sources ==
  << [file |-> ".agent",                                format |-> "agent"],
     [file |-> ".github/copilot-instructions.md",       format |-> "copilot"],
     [file |-> ".github/copilot-instructions.local.md", format |-> "copilot"],
     [file |-> ".cursor/rules",                         format |-> "cursor"],
     [file |-> ".cursorrules",                          format |-> "cursor"],
     [file |-> ".clinerules",                           format |-> "cline"],
     [file |-> ".clinerules.local",                     format |-> "cline"],
     [file |-> ".windsurfrules",                        format |-> "windsurf"],
     [file |-> ".windsurfrules.local",                  format |-> "windsurf"],
     [file |-> ".rules",                                format |-> "zed"],
     [file |-> ".rules.local",                          format |-> "zed"],
     [file |-> "AGENTS.md",                             format |-> "codex"],
     [file |-> "AGENTS.local.md",                       format |-> "codex"],
     [file |-> "CLAUDE.md",                             format |-> "claude"],
     [file |-> "CLAUDE.local.md",                       format |-> "claude"],
     [file |-> "CONVENTIONS.md",                        format |-> "aider"],
     [file |-> "CONVENTIONS.local.md",                  format |-> "aider"] >>

SourceFiles == {Sources[n].file : n \in 1..Len(Sources)}

\* the .agent trees of this specification: one that imports, and one as
\* exportToAgent leaves it for a rule with globs (the pattern unquoted)
AgentTrees ==
  { [p \in {<< <<"a", ".md">> >>} |-> FileText(NoId, <<>>)],
    [p \in {<< <<"a", ".md">> >>} |-> FileText(NoId, <<Scalar("globs", FALSE, "*.ts")>>)] }

Absent == [exists |-> FALSE, files |-> NoFiles, readable |-> FALSE]

\* what can be at the path of a source
SourceStates(file) ==
  IF file = ".agent"
  THEN {[exists |-> TRUE, files |-> t, readable |-> TRUE] : t \in AgentTrees}
  ELSE {[exists |-> TRUE, files |-> NoFiles, readable |-> r] : r \in BOOLEAN}

\* the importer of the source throws
SourceThrows(d, file) ==
  IF file = ".agent" THEN ImportThrows(d[file].files) ELSE ~d[file].readable

\* the ImportResult of a source whose importer returns
SourceResult(d, n) ==
  [format   |-> Sources[n].format,
   filePath |-> Sources[n].file,
   rules    |-> IF Sources[n].file = ".agent"
                THEN ImportedRules(RepoRoot, d[Sources[n].file].files) ELSE <<>>]

RECURSIVE ImportSources_Abort(_, _, _)
RECURSIVE ImportSources(_, _, _)
\* the blocks without try/catch: the first importer that throws ends the call
ImportSources_Abort(d, n, acc) ==
  IF n > Len(Sources) THEN acc
  ELSE IF ~d[Sources[n].file].exists THEN ImportSources_Abort(d, n + 1, acc)
  ELSE IF SourceThrows(d, Sources[n].file) THEN [acc EXCEPT !.threw = TRUE]
  ELSE ImportSources_Abort(d, n + 1, [acc EXCEPT !.results = Append(@, SourceResult(d, n))])

\* the if-blocks of importAll from the n-th on: existsSync, then the
\* importer inside try/catch
ImportSources(d, n, acc) ==
  IF n > Len(Sources) THEN acc
  ELSE IF ~d[Sources[n].file].exists THEN ImportSources(d, n + 1, acc)
  ELSE IF SourceThrows(d, Sources[n].file)
  THEN ImportSources(d, n + 1,
         [acc EXCEPT !.errors = Append(@, [file |-> Sources[n].file, error |-> "Error"])])
  ELSE ImportSources(d, n + 1, [acc EXCEPT !.results = Append(@, SourceResult(d, n))])

\* a repository with at most MaxSources of the sources
InitImportAll ==
  /\ \E present \in SUBSET SourceFiles :
       /\ Cardinality(present) <= MaxSources
       /\ \E d \in [present -> UNION {SourceStates(f) : f \in SourceFiles}] :
            /\ \A f \in present : d[f] \in SourceStates(f)
            /\ disk = [f \in SourceFiles |-> IF f \in present THEN d[f] ELSE Absent]
  /\ rules = <<>>
  /\ hist = <<>>
  /\ out = <<>>

\* importAll(repoPath)
ImportAll ==
  /\ hist = <<>>
  /\ LET got == ImportSources(disk, 1, [results |-> <<>>, errors |-> <<>>, threw |-> FALSE])
     IN /\ hist' = <<Event("importAll", RepoRoot, <<>>, got.threw, FALSE, <<>>, FALSE)>>
        /\ out' = << Output("results", FALSE, got.results, got.threw),
                     Output("errors", FALSE, got.errors, got.threw) >>
  /\ UNCHANGED <<disk, rules>>

NextImportAll == ImportAll

SpecImportAll == InitImportAll /\ [][NextImportAll]_vars

(***************************************************************************)
(* The frontmatter codec on its own: matter.stringify(content, data,       *)
(* grayMatterOptions) and matter(text, grayMatterOptions) applied in turn  *)
(* to a frontmatter object, as a writer and a reader of one file do.       *)
(***************************************************************************)
MaxPatterns == 2

Patterns == {"*.ts", "src/**", "{src,test}/**", "*.tsx,*.ts"}

\* a string, or a list of strings, of patterns
PatternValues ==
  {Str(g) : g \in Patterns}
  \cup UNION {{List(xs) : xs \in [1..n -> Patterns]} : n \in 1..MaxPatterns}

CodecData ==
  {<<KV(k, v)>> : k \in {"globs", "scope"}, v \in PatternValues}
  \cup {<<KV("globs", v), KV("scope", w)>> : v \in PatternValues, w \in PatternValues}
  \cup {<<KV("description", Str("d")), KV("globs", v)>> : v \in PatternValues}

\* the caller holds one rule whose metadata is the frontmatter object
InitCodec ==
  /\ \E d \in CodecData :
       rules = <<[id |-> << <<"a">> >>, meta |-> d, content |-> Plain("text")]>>
  /\ disk = [r \in Roots |-> Missing]
  /\ hist = <<>>
  /\ out = <<>>

\* matter.stringify(content, data, grayMatterOptions) of the object held
Stringify ==
  /\ Len(hist) < MaxSteps
  /\ IF hist = <<>> THEN TRUE ELSE Last(hist).op = "parse" /\ ~Last(hist).threw
  /\ out' = Append(out, Output("yaml", FALSE, SafeStringify(rules[1].meta), FALSE))
  /\ hist' = Append(hist, Event("stringify", OutRoot, rules, FALSE, FALSE, <<>>, FALSE))
  /\ UNCHANGED <<disk, rules>>

\* matter(text, grayMatterOptions) of the text written last
Parse ==
  /\ Len(hist) < MaxSteps
  /\ hist # <<>> /\ Last(hist).op = "stringify"
  /\ LET text  == Last(out).lines
         threw == SafeParseFails(text)
         got   == IF threw THEN rules ELSE <<[rules[1] EXCEPT !.meta = SafeParse(text)]>>
     IN /\ rules' = got
        /\ hist' = Append(hist, Event("parse", OutRoot, got, threw, FALSE, <<>>, FALSE))
  /\ UNCHANGED <<disk, out>>

NextCodec == Stringify \/ Parse

SpecCodec == InitCodec /\ [][NextCodec]_vars

(***************************************************************************)
(* parseFenceEncodedMarkdown.  A markdown text is the sequence of the top  *)
(* nodes remark gives for it: a code block of language "rule" (its value   *)
(* a YAML text, the id kept apart as in a file text) or a paragraph.       *)
(***************************************************************************)
MaxNodes == 4

RuleBlock(id, fm) == [type |-> "code", id |-> id, fm |-> fm, text |-> ""]

Paragraph(text) == [type |-> "paragraph", id |-> NoId, fm |-> <<>>, text |-> text]

\* a block with an id, one without, one whose YAML is an alias to nothing,
\* an empty one; two paragraphs
FenceNodes ==
  { RuleBlock(<< <<"a">> >>, <<>>),
    RuleBlock(<< <<"b">> >>, <<Scalar("alwaysApply", FALSE, "false")>>),
    RuleBlock(NoId, <<Scalar("alwaysApply", FALSE, "true")>>),
    RuleBlock(NoId, <<Scalar("globs", FALSE, "*.ts")>>),
    RuleBlock(NoId, <<>>),
    Paragraph("p1"),
    Paragraph("p2") }

FenceDocs == UNION {[1..n -> FenceNodes] : n \in 1..MaxNodes}

\* `rule-${Date.now()}`
GeneratedId == << <<"rule-", "now">> >>

\* the try block throws: yaml.load does, or it returns undefined for an
\* empty value and reading .id of it is a TypeError
BlockFails(node) == YamlLoadFails(node.fm) \/ (node.id = NoId /\ node.fm = <<>>)

\* currentMetadata after the try block, for a block that does not fail
BlockMetadata(node) ==
  [id |-> IF node.id = NoId \/ node.id = EmptyId THEN GeneratedId ELSE node.id,
   meta |-> YamlLoad(node.fm)]

\* the state of the loop before any node
FenceStart ==
  [rules |-> <<>>, hasMeta |-> FALSE, meta |-> BlockMetadata(RuleBlock(NoId, <<>>)),
   content |-> <<>>, threw |-> FALSE]

\* rules.push(...) when currentMetadata && currentContent.length > 0
PushRule(st) ==
  IF st.hasMeta /\ st.content # <<>>
  THEN Append(st.rules, [id |-> st.meta.id, meta |-> st.meta.meta, content |-> st.content])
  ELSE st.rules

\* the catch that leaves currentMetadata as it was
FenceStep_KeepRule(st, node, strict) ==
  IF st.threw THEN st
  ELSE IF node.type = "code"
  THEN IF BlockFails(node)
       THEN IF strict THEN [st EXCEPT !.rules = PushRule(st), !.threw = TRUE]
            ELSE [st EXCEPT !.rules = PushRule(st)]
       ELSE [st EXCEPT !.rules = PushRule(st), !.hasMeta = TRUE,
                       !.meta = BlockMetadata(node), !.content = <<>>]
  ELSE IF st.hasMeta THEN [st EXCEPT !.content = Append(@, node.text)]
  ELSE st

\* one iteration of the for loop over tree.children
FenceStep(st, node, strict) ==
  IF st.threw THEN st
  ELSE IF node.type = "code"
  THEN IF BlockFails(node)
       THEN IF strict THEN [st EXCEPT !.rules = PushRule(st), !.threw = TRUE]
            ELSE [st EXCEPT !.rules = PushRule(st), !.hasMeta = FALSE]
       ELSE [st EXCEPT !.rules = PushRule(st), !.hasMeta = TRUE,
                       !.meta = BlockMetadata(node), !.content = <<>>]
  ELSE IF st.hasMeta THEN [st EXCEPT !.content = Append(@, node.text)]
  ELSE st

RECURSIVE FenceLoop(_, _, _)
\* the loop state after the first n nodes
FenceLoop(doc, n, strict) ==
  IF n = 0 THEN FenceStart ELSE FenceStep(FenceLoop(doc, n - 1, strict), doc[n], strict)

\* parseFenceEncodedMarkdown(markdown, {strict}): [rules, threw]
parseFenceEncodedMarkdown(doc, strict) ==
  LET st == FenceLoop(doc, Len(doc), strict)
  IN [rules |-> IF st.threw THEN <<>> ELSE PushRule(st), threw |-> st.threw]

\* a markdown text is at hand; nothing was parsed yet
InitFence ==
  /\ disk \in FenceDocs
  /\ rules = <<>>
  /\ hist = <<>>
  /\ out = <<>>

ParseFence(strict) ==
  /\ hist = <<>>
  /\ LET got == parseFenceEncodedMarkdown(disk, strict)
     IN /\ rules' = got.rules
        /\ hist' = <<Event(IF strict THEN "parseFence-strict" ELSE "parseFence",
                           <<>>, got.rules, got.threw, FALSE, <<>>, FALSE)>>
  /\ UNCHANGED <<disk, out>>

NextFence == \E strict \in BOOLEAN : ParseFence(strict)

SpecFence == InitFence /\ [][NextFence]_vars

(***************************************************************************)
(* Repeated exports into one directory: a caller passes rule lists to      *)
(* exportToAgent one after the other, and reads the directory back.        *)
(***************************************************************************)
MaxExports == 2

ReexportIds == { << <<"a">> >>, << <<"private">>, <<"0", "0", "1", "-", "a">> >> }

ReexportShapes ==
  { [meta |-> <<>>, content |-> Plain("text")],
    [meta |-> <<KV("description", Str("d"))>>, content |-> Plain("text")],
    [meta |-> <<KV("private", Bool(TRUE))>>, content |-> Plain("secret")] }

\* the lists of one or two rules with different ids
ReexportLists ==
  LET universe == {[id |-> i, meta |-> sh.meta, content |-> sh.content]
                     : i \in ReexportIds, sh \in ReexportShapes}
  IN UNION {{rs \in [1..n -> universe] : DistinctIds(rs)} : n \in 1..2}

InitReexport ==
  /\ rules = <<>>
  /\ disk = [r \in Roots |-> Missing]
  /\ hist = <<>>
  /\ out = <<>>

ExportsDone == Cardinality({i \in 1..Len(hist) : hist[i].op = "export"})

\* topIndex started from the files already in private/: the k-th private
\* top-level rule of the call gets the ordinal k + the number of such files
ExportRules_CountDisk(rs) ==
  /\ ExportsDone < MaxExports
  /\ Len(hist) < MaxSteps
  /\ LET files == disk[OutRoot].files
         held  == Cardinality({p \in DOMAIN files : Len(p) = 2 /\ p[1] = <<"private">>})
         paths == [i \in 1..Len(rs) |-> TargetPath(rs[i], TopIndexAt(rs, i - 1) + held)]
         texts == [i \in 1..Len(rs) |-> MatterStringify(rs[i].content, FrontMatterBase(rs[i].meta))]
         last(p) == CHOOSE i \in 1..Len(rs) : paths[i] = p /\ \A j \in (i + 1)..Len(rs) : paths[j] # p
     IN /\ disk' = [disk EXCEPT ![OutRoot] =
                      [exists |-> TRUE,
                       files |-> [p \in (DOMAIN files) \cup Range(paths) |->
                                    IF p \in Range(paths) THEN texts[last(p)] ELSE files[p]]]]
        /\ hist' = Append(hist, Event("export", OutRoot, rs, FALSE, files = NoFiles, paths, FALSE))
  /\ rules' = rs
  /\ UNCHANGED out

\* exportToAgent(rs, outputDir) with <outputDir>/.agent = OutRoot
ExportRules(rs) ==
  /\ ExportsDone < MaxExports
  /\ Len(hist) < MaxSteps
  /\ LET files == disk[OutRoot].files
     IN /\ disk' = [disk EXCEPT ![OutRoot] =
                      [exists |-> TRUE, files |-> WriteRules(files, rs, Len(rs))]]
        /\ hist' = Append(hist, Event("export", OutRoot, rs, FALSE, files = NoFiles,
                                      WrittenPaths(rs), FALSE))
  /\ rules' = rs
  /\ UNCHANGED out

NextReexport ==
  \/ \E rs \in ReexportLists : ExportRules(rs)
  \/ ImportAgent(OutRoot)

SpecReexport == InitReexport /\ [][NextReexport]_vars

(***************************************************************************)
(* One tree at two places: the same .agent directory under /repo and under *)
(* /private/repo (a checkout below a folder named private, or a temporary  *)
(* directory of macOS, /private/var/...), each read by importAgent.        *)
(***************************************************************************)
PrivateParentRoot == << <<"private">>, <<"repo">>, <<".agent">> >>

TreeRoots == {RepoRoot, PrivateParentRoot}

InitRoots ==
  /\ rules = <<>>
  /\ \E t \in Trees : disk = [r \in TreeRoots |-> [exists |-> TRUE, files |-> t]]
  /\ hist = <<>>
  /\ out = <<>>

\* importAgent(agentDir), once for each place
ImportFrom(agentDir) ==
  /\ \A i \in 1..Len(hist) : hist[i].dir # agentDir
  /\ ImportAgent(agentDir)

NextRoots == \E r \in TreeRoots : ImportFrom(r)

SpecRoots == InitRoots /\ [][NextRoots]_vars

(***************************************************************************)
(* Properties                                                              *)
(***************************************************************************)
IsPrivate(rule) == Get(rule.meta, "private") = Bool(TRUE)

\* the i-th call exported into an empty directory and the next call
\* imported that directory
ExportThenImport(i) ==
  /\ i + 1 <= Len(hist)
  /\ hist[i].op = "export"
  /\ hist[i].wasEmpty
  /\ hist[i + 1].op = "import"
  /\ hist[i + 1].dir = hist[i].dir

HasOrderingPrefix(seg) == StripOrderingPrefix(seg) # seg

HasLocalSuffix(seg) == seg # <<>> /\ Last(seg) = ".local"

\* an id of the data model: non-empty segments without ordering prefix,
\* without .local suffix, none of them the privacy folder name
ValidId(id) ==
  /\ id # NoId
  /\ \A k \in 1..Len(id) :
       /\ id[k] # <<>> /\ id[k] # <<"private">>
       /\ ~HasOrderingPrefix(id[k]) /\ ~HasLocalSuffix(id[k])

\* a rule up to what a reader of the metadata cannot tell apart: the key
\* order, and an explicit private: false (the absent key means public)
Canon(rule) ==
  [id |-> rule.id,
   meta |-> MetaMap(rule.meta) \ {<<"private", Bool(FALSE)>>},
   content |-> Trim(rule.content)]

CanonSet(rs) == {Canon(rs[j]) : j \in 1..Len(rs)}

\* C1: for a rule list with pairwise-distinct ids, valid metadata and no
\* private rule, exportToAgent into an empty directory followed by
\* importAgent of that directory returns the original rules: same id, same
\* metadata, same content up to trimming.  Stated in its weakest reading:
\* the lists are compared up to order.
C1_RoundTripIdentity ==
  \A i \in 1..Len(hist) :
    (/\ ExportThenImport(i)
     /\ DistinctIds(hist[i].list)
     /\ \A j \in 1..Len(hist[i].list) : ValidId(hist[i].list[j].id)
     /\ \A j \in 1..Len(hist[i].list) : ~IsPrivate(hist[i].list[j]))
    => /\ ~hist[i + 1].threw
       /\ Len(hist[i + 1].list) = Len(hist[i].list)
       /\ CanonSet(hist[i + 1].list) = CanonSet(hist[i].list)

\* the frontmatter of a file says private: true / private: false / nothing
FrontmatterPrivate(text) ==
  IF \E i \in 1..Len(text.fm) : text.fm[i].k = "private"
  THEN (text.fm[CHOOSE i \in 1..Len(text.fm) : text.fm[i].k = "private"]).items[1].x
  ELSE "absent"

\* the last call was an importAgent that returned
Imported == hist # <<>> /\ Last(hist).op = "import" /\ ~Last(hist).threw

ImportedPaths == findMarkdownFiles(disk[Last(hist).dir].files, <<>>)

\* C2: on import, frontmatter private: true makes the rule private;
\* frontmatter private: false gives metadata.private = false even on a
\* private path; the path decides only when the frontmatter has no private
\* key.
C2_PrivacyPrecedence ==
  Imported =>
    \A i \in 1..Len(ImportedPaths) :
      LET text  == disk[Last(hist).dir].files[ImportedPaths[i]]
          byPath == isPrivateRule(Last(hist).dir \o ImportedPaths[i])
          got   == Get(Last(hist).list[i].meta, "private")
      IN CASE FrontmatterPrivate(text) = "true"  -> got = Bool(TRUE)
           [] FrontmatterPrivate(text) = "false" -> got = Bool(FALSE)
           [] OTHER -> got = (IF byPath THEN Bool(TRUE) ELSE Undefined)

\* an import met private: false on a private path
C2_Witness ==
  /\ Imported
  /\ \E i \in 1..Len(ImportedPaths) :
       /\ FrontmatterPrivate(disk[Last(hist).dir].files[ImportedPaths[i]]) = "false"
       /\ isPrivateRule(Last(hist).dir \o ImportedPaths[i])
       /\ Get(Last(hist).list[i].meta, "private") = Bool(FALSE)

\* some line of an output carries the body of the rule or links to its id
Mentions(lines, rule) ==
  \E i \in 1..Len(lines) :
    \/ lines[i].kind \in {"body", "file"} /\ lines[i].text = rule.content.core
    \/ lines[i].kind = "link" /\ lines[i].id = rule.id

\* some file of the .agent directory carries the body of the rule
WrittenToAgent(rule) ==
  \E p \in DOMAIN disk[OutRoot].files : disk[OutRoot].files[p].body.core = rule.content.core

PrivateRules == {i \in 1..Len(rules) : IsPrivate(rules[i])}

\* no per-tool output called without includePrivate carries a private rule
PerToolOutputsHidePrivate ==
  \A k \in 1..Len(out) :
    ~out[k].includePrivate => \A i \in PrivateRules : ~Mentions(out[k].lines, rules[i])

\* C3 as stated: every export function, exportToAgent and exportAll
\* included, leaves out the rules with metadata.private = true unless
\* includePrivate is set.
C3_Original ==
  /\ PerToolOutputsHidePrivate
  /\ (hist # <<>> /\ hist[1].op \in {"export", "exportAll"} /\ ~hist[1].includePrivate)
       => \A i \in PrivateRules : ~WrittenToAgent(rules[i])

\* C3 (amended): every export function other than exportToAgent, and every
\* target of exportAll other than the .agent directory, leaves out the rules
\* with metadata.private = true unless includePrivate is set.
C3_PrivateExcluded == PerToolOutputsHidePrivate

\* exportAll without includePrivate ran on a list with a private rule
C3_Witness ==
  /\ Len(out) > 1
  /\ ~out[1].includePrivate
  /\ PrivateRules # {}
  /\ \E i \in 1..Len(rules) : ~IsPrivate(rules[i]) /\ Mentions(out[1].lines, rules[i])

HasLocalAtom(id) == \E k \in 1..Len(id) : \E m \in 1..Len(id[k]) : id[k][m] = ".local"

HasPrivateSegment(id) == \E k \in 1..Len(id) : id[k] = <<"private">>

\* decode(encode(id)) = id for every public rule of every export whose id
\* satisfies InDomain
DecodeInvertsEncode(InDomain(_)) ==
  \A i \in 1..Len(hist) :
    hist[i].op = "export" =>
      \A j \in 1..Len(hist[i].list) :
        LET r == hist[i].list[j]
        IN (~Truthy(Get(r.meta, "private")) /\ InDomain(r.id))
           => DefaultId(hist[i].paths[j]) = r.id

\* an id of one or more non-empty segments
HasSegments(id) == id # NoId /\ \A k \in 1..Len(id) : id[k] # <<>>

\* C4 as stated: for every single- or multi-segment id without .local and
\* without a segment equal to private, decoding the path exportToAgent
\* chooses for a public rule gives back the id.
C4_Original ==
  DecodeInvertsEncode(LAMBDA id :
    HasSegments(id) /\ ~HasLocalAtom(id) /\ ~HasPrivateSegment(id))

\* C4 (amended): the same for the ids that moreover have no segment that
\* begins with an ordering prefix.
C4_DecodeInvertsEncode ==
  DecodeInvertsEncode(LAMBDA id :
    /\ HasSegments(id) /\ ~HasLocalAtom(id) /\ ~HasPrivateSegment(id)
    /\ \A k \in 1..Len(id) : ~HasOrderingPrefix(id[k]))

\* a public rule with a multi-segment id of the domain was exported
C4_Witness ==
  \E i \in 1..Len(hist) :
    /\ hist[i].op = "export"
    /\ \E j \in 1..Len(hist[i].list) :
         /\ hist[i].list[j].id = << <<"f">>, <<"a">> >>
         /\ ~Truthy(Get(hist[i].list[j].meta, "private"))
         /\ hist[i].paths[j] = << <<"f">>, <<"a", ".md">> >>

SectionTargets == {"copilot", "cline", "windsurf", "zed", "codex", "aider", "claude", "qodo"}

SingleFileTargets == SectionTargets \cup {"gemini"}

\* the buckets of the section in which a link to id stands
BucketsOf(lines, id) ==
  {IF lines[i - 1].kind = "when-files" THEN "scoped"
   ELSE IF lines[i - 1].kind = "when-topic" THEN "described"
   ELSE "foldered"
     : i \in {n \in 2..Len(lines) : lines[n].kind = "link" /\ lines[n].id = id}}

\* the i-th rule reaches the synthesizer of the k-th output
GivenToSynthesizer(k, i) ==
  /\ out[k].target \in SectionTargets
  /\ ~Truthy(Get(rules[i].meta, "private")) \/ out[k].includePrivate

\* C5: every rule with alwaysApply = false given to the synthesizer is
\* listed in exactly one of the three buckets of the section (ids being
\* unique in the list).
C5_ExactlyOneBucket ==
  \A k \in 1..Len(out) : \A i \in 1..Len(rules) :
    (GivenToSynthesizer(k, i) /\ IsConditional(rules[i]) /\ DistinctIds(rules))
    => Cardinality(BucketsOf(out[k].lines, rules[i].id)) = 1

\* C6: no single-file output inlines the body of a rule with
\* alwaysApply = false.
C6_ConditionalNeverInlined ==
  \A k \in 1..Len(out) : \A i \in 1..Len(rules) :
    (out[k].target \in SingleFileTargets /\ IsConditional(rules[i]))
    => ~\E n \in 1..Len(out[k].lines) :
          out[k].lines[n].kind = "body" /\ out[k].lines[n].text = rules[i].content.core

\* the length of the longest common prefix of two paths
RECURSIVE CommonLen(_, _)
CommonLen(p, q) ==
  IF p # <<>> /\ q # <<>> /\ Head(p) = Head(q) THEN 1 + CommonLen(Tail(p), Tail(q)) ELSE 0

\* p is visited before q: at the directory where they part, a subdirectory
\* comes before a file, and two entries of one kind in the order of names
VisitedBefore(p, q) ==
  LET d    == CommonLen(p, q)
      pDir == Len(p) > d + 1
      qDir == Len(q) > d + 1
  IN IF pDir # qDir THEN pDir ELSE LocaleCompare(p[d + 1], q[d + 1]) < 0

\* C7: at every level the importer visits the subdirectories before the
\* files, each group in the order of names, and returns the rules in that
\* order.
C7_DirectoriesFirst ==
  Imported =>
    LET files == disk[Last(hist).dir].files
        md    == {p \in DOMAIN files : EndsWithMd(Last(p))}
        order == CHOOSE s \in [1..Cardinality(md) -> md] :
                   \A i, j \in 1..Cardinality(md) :
                     i < j => (s[i] # s[j] /\ VisitedBefore(s[i], s[j]))
    IN Last(hist).list =
         [i \in 1..Cardinality(md) |-> ImportFile(Last(hist).dir, order[i], files[order[i]])]

\* the calls i, i+1, i+2 are an import, an export of its result into an
\* empty directory, and an import of that directory
ImportExportImport(i) ==
  /\ i + 2 <= Len(hist)
  /\ hist[i].op = "import" /\ ~hist[i].threw
  /\ hist[i + 1].list = hist[i].list
  /\ ExportThenImport(i + 1)

\* C8: a rule list obtained from an import, exported into an empty
\* directory and imported again, comes back as the same set of rules.
C8_ReimportSameSet ==
  \A i \in 1..Len(hist) :
    ImportExportImport(i)
    => /\ ~hist[i + 2].threw
       /\ CanonSet(hist[i + 2].list) = CanonSet(hist[i].list)

\* C9: no rule returned by the tree importer has an id with a segment that
\* begins with an ordering prefix or ends with .local.
C9_IdsAreDecoded ==
  \A i \in 1..Len(hist) :
    (hist[i].op = "import" /\ ~hist[i].threw)
    => \A j \in 1..Len(hist[i].list) : \A k \in 1..Len(hist[i].list[j].id) :
         /\ ~HasOrderingPrefix(hist[i].list[j].id[k])
         /\ ~HasLocalSuffix(hist[i].list[j].id[k])

\* a private rule whose id is one non-empty segment
PrivateTopLevel(rule) == IsPrivate(rule) /\ ~IsNested(rule.id)

\* k zero-padded to three digits, then "-"
Padded3(k) == <<DigitSeq[(k \div 100) + 1], DigitSeq[((k \div 10) % 10) + 1], DigitSeq[(k % 10) + 1], "-">>

\* C10: exportToAgent writes the k-th private single-segment rule of its
\* list to private/<k padded to 3 digits>-<id>.md.
C10_PrivateOrdinalPath ==
  \A i \in 1..Len(hist) :
    hist[i].op = "export" =>
      \A j \in 1..Len(hist[i].list) :
        LET r == hist[i].list[j]
            k == Cardinality({m \in 1..j : PrivateTopLevel(hist[i].list[m])})
            path == << <<"private">>, Padded3(k) \o r.id[1] \o <<".md">> >>
        IN (PrivateTopLevel(r) /\ r.id # EmptyId)
           => /\ hist[i].paths[j] = path
              /\ i = Len(hist) =>
                   /\ path \in DOMAIN disk[hist[i].dir].files
                   /\ disk[hist[i].dir].files[path].body.core = r.content.core

\* private rules a then b were written to private/001-a.md and private/002-b.md
C10_Witness ==
  /\ hist # <<>>
  /\ Last(hist).op = "export"
  /\ Len(Last(hist).list) >= 2
  /\ \E j \in 1..(Len(Last(hist).list) - 1) :
       /\ Last(hist).list[j].id = << <<"a">> >> /\ PrivateTopLevel(Last(hist).list[j])
       /\ Last(hist).list[j + 1].id = << <<"b">> >> /\ PrivateTopLevel(Last(hist).list[j + 1])
       /\ Last(hist).paths[j] = << <<"private">>, <<"0", "0", "1", "-", "a", ".md">> >>
       /\ Last(hist).paths[j + 1] = << <<"private">>, <<"0", "0", "2", "-", "b", ".md">> >>
       /\ {Last(hist).paths[j], Last(hist).paths[j + 1]} \subseteq DOMAIN disk[OutRoot].files

\* the bodies of the rules of a list, in order
BodiesOf(rs) == [j \in 1..Len(rs) |-> rs[j].content.core]

\* C11: after exportToAgent into an empty directory and importAgent of the
\* result, the private single-segment rules come back in the relative order
\* they had in the exported list.  Checked on two consecutive private
\* top-level rules of an export, for every ordinal the first can have.
C11_OrdinalPreservesOrder ==
  (/\ Len(hist) >= 2
   /\ hist[1].op = "export-slice"
   /\ hist[2].op = "import" /\ ~hist[2].threw)
  => BodiesOf(hist[2].list) = BodiesOf(hist[1].list)

\* the export events of the history
Exports == {i \in 1..Len(hist) : hist[i].op = "export"}

\* C12: a rule whose id has more than one segment is written by
\* exportToAgent to <root>/<seg1>/.../<last>.md: the folders are the leading
\* segments of the id, the file name is the last segment with no numeric
\* prefix, and no private/ folder is added, whether or not the rule is
\* private.
C12_NestedPath ==
  \A i \in Exports : \A j \in 1..Len(hist[i].list) :
    LET r    == hist[i].list[j]
        path == Append(Front(r.id), Last(r.id) \o <<".md">>)
    IN IsNested(r.id)
       => /\ hist[i].paths[j] = path
          /\ (i = Len(hist)) => path \in DOMAIN disk[hist[i].dir].files

\* a private rule with id f/a was written to f/a.md
C12_Witness ==
  \E i \in Exports : \E j \in 1..Len(hist[i].list) :
    /\ i = Len(hist)
    /\ hist[i].list[j].id = << <<"f">>, <<"a">> >>
    /\ IsPrivate(hist[i].list[j])
    /\ hist[i].paths[j] = << <<"f">>, <<"a", ".md">> >>
    /\ hist[i].paths[j] \in DOMAIN disk[OutRoot].files

\* C13: on tree import the id of a rule is the frontmatter id whenever the
\* frontmatter has one, whatever the path of the file; the path-derived id
\* is used only when the frontmatter has no id.
C13_FrontmatterIdWins ==
  Imported =>
    \A i \in 1..Len(ImportedPaths) :
      LET text == disk[Last(hist).dir].files[ImportedPaths[i]]
          got  == Last(hist).list[i].id
      IN /\ text.id # NoId => got = text.id
         /\ got = DefaultId(ImportedPaths[i]) => (text.id = NoId \/ text.id = got)
         /\ text.id = NoId => got = DefaultId(ImportedPaths[i])

\* files with the frontmatter ids x and "" were imported from a path that
\* decodes to another id
C13_Witness ==
  /\ Imported
  /\ \E i \in 1..Len(ImportedPaths) :
       LET text == disk[Last(hist).dir].files[ImportedPaths[i]]
       IN /\ text.id \in {EmptyId, << <<"x">> >>}
          /\ DefaultId(ImportedPaths[i]) = << <<"a">> >>
          /\ Last(hist).list[i].id = text.id

\* the id the sentence of C14 describes for a relative path: the extension
\* removed, each segment without one leading ordering prefix and without a
\* trailing .local, a leading segment private dropped
DescribedId(relPath) ==
  LET n    == Len(relPath)
      segs == [k \in 1..n |->
                 LET name  == IF k = n /\ relPath[k] # <<>> /\ Last(relPath[k]) = ".md"
                              THEN Front(relPath[k]) ELSE relPath[k]
                     lead  == LeadingDigits(name)
                     noPre == IF lead >= 2 /\ Len(name) > lead /\ name[lead + 1] = "-"
                              THEN SubSeq(name, lead + 2, Len(name)) ELSE name
                 IN IF noPre # <<>> /\ Last(noPre) = ".local" THEN Front(noPre) ELSE noPre]
      kept == IF segs[1] = <<"private">> THEN Tail(segs) ELSE segs
  IN IF kept = <<>> THEN EmptyId ELSE kept

\* C14: for a file with no frontmatter id the imported id is the relative
\* path with the extension removed, each segment stripped of a leading
\* ordering prefix and of a trailing .local, and a leading segment private
\* dropped; docs/api/v2/overview.md gives docs/api/v2/overview.
C14_PathDerivedId ==
  Imported =>
    \A i \in 1..Len(ImportedPaths) :
      LET p == ImportedPaths[i]
      IN disk[Last(hist).dir].files[p].id = NoId
         => /\ Last(hist).list[i].id = DescribedId(p)
            /\ p = << <<"docs">>, <<"api">>, <<"v2">>, <<"overview", ".md">> >>
                 => Last(hist).list[i].id = << <<"docs">>, <<"api">>, <<"v2">>, <<"overview">> >>
            /\ p = << <<"a", ".local", ".md">> >> => Last(hist).list[i].id = << <<"a">> >>
            /\ p = << <<"private">>, <<"a", ".md">> >> => Last(hist).list[i].id = << <<"a">> >>
            /\ p = << <<"0", "1", "-", "a", ".md">> >> => Last(hist).list[i].id = << <<"a">> >>

\* docs/api/v2/overview.md and a.local.md, both without frontmatter id, were
\* imported
C14_Witness ==
  /\ Imported
  /\ \E i, j \in 1..Len(ImportedPaths) :
       /\ ImportedPaths[i] = << <<"docs">>, <<"api">>, <<"v2">>, <<"overview", ".md">> >>
       /\ ImportedPaths[j] = << <<"a", ".local", ".md">> >>
       /\ disk[Last(hist).dir].files[ImportedPaths[i]].id = NoId
       /\ disk[Last(hist).dir].files[ImportedPaths[j]].id = NoId
       /\ Last(hist).list[i].id = << <<"docs">>, <<"api">>, <<"v2">>, <<"overview">> >>
       /\ Last(hist).list[j].id = << <<"a">> >>

\* C15: every rule returned by the tree importer has alwaysApply defined:
\* the frontmatter value when the frontmatter gives one, false otherwise.
C15_AlwaysApplyDefined ==
  Imported =>
    \A i \in 1..Len(ImportedPaths) :
      LET given == Get(YamlLoad(disk[Last(hist).dir].files[ImportedPaths[i]].fm), "alwaysApply")
          got   == Get(Last(hist).list[i].meta, "alwaysApply")
      IN got = (IF given.t = "undefined" THEN Bool(FALSE) ELSE given)

\* a frontmatter block says private: false
SaysPrivateFalse(fm) ==
  \E n \in 1..Len(fm) :
    fm[n].k = "private" /\ fm[n].shape = "scalar" /\ fm[n].items[1] = [q |-> FALSE, x |-> "false"]

\* the frontmatter blocks the exporters wrote: the files of the exported
\* .agent directory and the .mdc files of exportToCursor
WrittenFrontmatters ==
  {disk[OutRoot].files[p].fm : p \in DOMAIN disk[OutRoot].files}
  \cup UNION {{out[k].lines[n].fm : n \in {m \in 1..Len(out[k].lines) : out[k].lines[m].kind = "file"}}
              : k \in 1..Len(out)}

\* C16: no frontmatter block written by an exporter contains a
\* private: false key, whatever the metadata of the exported rule.
C16_NoPrivateFalse == \A fm \in WrittenFrontmatters : ~SaysPrivateFalse(fm)

\* exportAll wrote a rule with metadata.private = false to the .agent
\* directory and to a .mdc file, with its other keys
C16_Witness ==
  /\ \E i \in 1..Len(rules) : Get(rules[i].meta, "private") = Bool(FALSE)
  /\ \E p \in DOMAIN disk[OutRoot].files :
       /\ disk[OutRoot].files[p].fm = <<Scalar("alwaysApply", FALSE, "true")>>
  /\ \E k \in 1..Len(out) : \E n \in 1..Len(out[k].lines) :
       /\ out[k].target = "cursor"
       /\ out[k].lines[n].kind = "file"
       /\ out[k].lines[n].fm = <<Scalar("alwaysApply", FALSE, "true")>>

\* the place of a key in the fixed order: the allow-listed keys first, in
\* their order, then every extension key
KeyRank(k) ==
  IF k \in Range(AllowList) THEN CHOOSE n \in 1..Len(AllowList) : AllowList[n] = k
  ELSE Len(AllowList) + 1

\* C17: the keys of every frontmatter block written by the tree exporter
\* stand in the fixed order description, alwaysApply, globs, manual, scope,
\* priority, triggers, followed by the extension keys, whatever the key
\* order of the metadata object (the id is not emitted).
C17_FixedKeyOrder ==
  \A p \in DOMAIN disk[OutRoot].files :
    LET fm == disk[OutRoot].files[p].fm
    IN \A a, b \in 1..Len(fm) : a < b => KeyRank(fm[a].k) <= KeyRank(fm[b].k)

\* the output holds the heading "## Context-Specific Rules"
HasSection(lines) ==
  \E n \in 1..Len(lines) : lines[n].kind = "title" /\ lines[n].text = "Context-Specific Rules"

\* the i-th rule is among the rules the k-th output exports
Exported(k, i) == ~Truthy(Get(rules[i].meta, "private")) \/ out[k].includePrivate

\* the k-th output has the section exactly when it exports a conditional rule
SectionIffConditional(k) ==
  HasSection(out[k].lines) <=> \E i \in 1..Len(rules) : Exported(k, i) /\ IsConditional(rules[i])

\* C18: a single-file export contains the "## Context-Specific Rules"
\* section if and only if at least one of the exported rules has
\* alwaysApply = false.
C18_SectionIffConditional ==
  \A k \in 1..Len(out) : out[k].target \in SingleFileTargets => SectionIffConditional(k)

\* the patterns of the "When working with files matching" lines of an
\* output that are directly followed by a link to id, in order
ScopeLinesFor(lines, id) ==
  LET at == SelectSeqIdx(lines, LAMBDA n :
              /\ lines[n].kind = "when-files"
              /\ n < Len(lines) /\ lines[n + 1].kind = "link" /\ lines[n + 1].id = id)
  IN [m \in 1..Len(at) |-> lines[at[m]].text]

\* the patterns of a scope: the list, or the one string
PatternsOf(rule) == Get(rule.meta, "scope").s

\* C19: in the synthesized section, a conditional rule whose scope lists n
\* patterns has exactly n "When working with files matching" lines, one per
\* pattern and in their order, each followed by a link to the id of that
\* rule (ids being unique in the list).
C19_OneLinePerPattern ==
  \A k \in 1..Len(out) : \A i \in 1..Len(rules) :
    (/\ out[k].target \in SectionTargets
     /\ Exported(k, i) /\ IsConditional(rules[i])
     /\ Get(rules[i].meta, "scope").t \in {"str", "list"}
     /\ DistinctIds(rules))
    => /\ ScopeLinesFor(out[k].lines, rules[i].id) = PatternsOf(rules[i])
       /\ Cardinality({n \in 1..Len(out[k].lines) :
                         /\ out[k].lines[n].kind = "when-files"
                         /\ out[k].lines[n + 1].id = rules[i].id})
            = Len(PatternsOf(rules[i]))

\* a rule with the scope [src/**, test/**] has its two lines, both linking
\* to it, in a list that holds another scoped rule
C19_Witness ==
  \E k \in 1..Len(out) : \E i, j \in 1..Len(rules) :
    /\ out[k].target = "copilot"
    /\ i # j /\ DistinctIds(rules)
    /\ IsConditional(rules[i]) /\ IsConditional(rules[j])
    /\ Get(rules[i].meta, "scope") = List(<<"src/**", "test/**">>)
    /\ Get(rules[j].meta, "scope") = Str("src/**")
    /\ ScopeLinesFor(out[k].lines, rules[i].id) = <<"src/**", "test/**">>
    /\ ScopeLinesFor(out[k].lines, rules[j].id) = <<"src/**">>

\* the sources, in the order of importAll, that are there and whose
\* importer throws (failing = TRUE) or returns (failing = FALSE)
ExistingSources(failing) ==
  LET at == SelectSeqIdx(Sources, LAMBDA n :
              /\ disk[Sources[n].file].exists
              /\ SourceThrows(disk, Sources[n].file) = failing)
  IN [m \in 1..Len(at) |-> Sources[at[m]].file]

\* C20: whichever subset of the existing sources fails to import, importAll
\* returns normally, every failing source is one entry of the errors list,
\* and every other existing source is imported into results.
C20_ErrorIsolation ==
  (hist # <<>> /\ hist[1].op = "importAll")
  => /\ ~hist[1].threw
     /\ [n \in 1..Len(out[2].lines) |-> out[2].lines[n].file] = ExistingSources(TRUE)
     /\ [n \in 1..Len(out[1].lines) |-> out[1].lines[n].filePath] = ExistingSources(FALSE)

\* importAll ran on a repository whose .agent directory fails to import
\* and in which a later source fails too and a source after both imports
C20_Witness ==
  /\ hist # <<>> /\ hist[1].op = "importAll" /\ ~hist[1].threw
  /\ Len(out[2].lines) = 2
  /\ out[2].lines[1].file = ".agent"
  /\ out[2].lines[2].file = ".clinerules"
  /\ Len(out[1].lines) = 1
  /\ out[1].lines[1].filePath = "CLAUDE.md"

(***************************************************************************)
(* C21: serialisation removes quotes only from the values of the globs     *)
(* key; the values of scope and of every other key are written with the    *)
(* quoting yaml.dump gave them.                                            *)
(***************************************************************************)
C21_OnlyGlobsUnquoted ==
  \A o \in 1..Len(out) : \A n \in 1..Len(out[o].lines) :
    out[o].lines[n].k # "globs" =>
      \A i \in 1..Len(out[o].lines[n].items) :
        out[o].lines[n].items[i] = DumpItem(out[o].lines[n].items[i].x)

(***************************************************************************)
(* C22: a frontmatter with a globs value parses back to an object equal to *)
(* the one serialised, and serialising the parsed object gives the same    *)
(* text again.                                                             *)
(***************************************************************************)
HasGlobs(rs) == Get(rs[1].meta, "globs").t # "undefined"

C22_GlobsRoundTrip ==
  /\ \A i \in 2..Len(hist) :
       (hist[i].op = "parse" /\ HasGlobs(hist[i - 1].list)) =>
         /\ ~hist[i].threw
         /\ MetaMap(hist[i].list[1].meta) = MetaMap(hist[i - 1].list[1].meta)
  /\ \A o \in 2..Len(out) : HasGlobs(rules) => out[o].lines = out[1].lines

(***************************************************************************)
(* C24: a rule block whose YAML fails to parse makes the fence parser      *)
(* raise in strict mode; in non-strict mode the parser does not raise and  *)
(* returns the rules of the well-formed blocks.  As stated, the failing    *)
(* block is read as plain content (C24_Original); in the code it is        *)
(* skipped together with the content that follows it (C24_SkipsBlock).     *)
(***************************************************************************)
FailingBlocks(doc) == {i \in 1..Len(doc) : doc[i].type = "code" /\ BlockFails(doc[i])}

\* the text with every failing block turned into a paragraph
AsPlainContent(doc) ==
  [i \in 1..Len(doc) |-> IF i \in FailingBlocks(doc) THEN Paragraph("block") ELSE doc[i]]

\* every failing block of the text fails in yaml.load
OnlyYamlFailures(doc) == \A i \in FailingBlocks(doc) : YamlLoadFails(doc[i].fm)

Following(doc, i) ==
  LET stop == IF \E j \in (i + 1)..Len(doc) : doc[j].type = "code"
              THEN CHOOSE j \in (i + 1)..Len(doc) :
                     /\ doc[j].type = "code"
                     /\ \A k \in (i + 1)..(j - 1) : doc[k].type # "code"
              ELSE Len(doc) + 1
  IN [k \in 1..(stop - i - 1) |-> doc[i + k].text]

\* one rule per well-formed block that is followed by content
RulesOfWellFormedBlocks(doc) ==
  LET blocks == SelectSeqIdx(doc, LAMBDA i :
                  /\ doc[i].type = "code"
                  /\ i \notin FailingBlocks(doc)
                  /\ Following(doc, i) # <<>>)
  IN [k \in 1..Len(blocks) |->
        [id      |-> IF doc[blocks[k]].id = NoId THEN GeneratedId ELSE doc[blocks[k]].id,
         meta    |-> YamlLoad(doc[blocks[k]].fm),
         content |-> Following(doc, blocks[k])]]

LinkPath(id) == Append(Front(id), Last(id) \o <<".md">>)

C28_LinksNameWrittenPaths ==
  \A o \in 1..Len(out) :
    out[o].target \in SectionTargets =>
      \A n \in 1..Len(out[o].lines) :
        out[o].lines[n].kind = "link" =>
          \A i \in 1..Len(rules) :
            rules[i].id = out[o].lines[n].id => LinkPath(rules[i].id) = WrittenPaths(rules)[i]

(***************************************************************************)
(* C26: importing a tree in which no file has a frontmatter id yields      *)
(* rules with pairwise-distinct ids.                                       *)
(***************************************************************************)
NoFrontmatterIds(files) == \A p \in DOMAIN files : files[p].id = NoId

C26_DistinctDecodedIds ==
  (Imported /\ NoFrontmatterIds(disk[Last(hist).dir].files)) => DistinctIds(Last(hist).list)

(***************************************************************************)
(* C23: exportToAgent called twice in a row with the same rule list and    *)
(* the same directory leaves the files, and their contents, that the first *)
(* call left.                                                              *)
(***************************************************************************)
\* the step is an export that repeats the export before it
RepeatsExport ==
  /\ hist # <<>>
  /\ Len(hist') = Len(hist) + 1
  /\ Last(hist).op = "export"
  /\ Last(hist').op = "export"
  /\ Last(hist').dir = Last(hist).dir
  /\ Last(hist').list = Last(hist).list

C23_ExportRepeatable == [][RepeatsExport => disk' = disk]_vars

\* a list with a private top-level rule was exported twice in a row
C23_Witness ==
  /\ Len(hist) >= 2
  /\ hist[1].op = "export" /\ hist[2].op = "export"
  /\ hist[1].list = hist[2].list
  /\ Len(hist[2].list) = 2
  /\ PrivateTopLevel(hist[2].list[2])
  /\ disk[OutRoot].files = WriteRules(NoFiles, hist[1].list, 2)
  /\ << <<"private">>, <<"0", "0", "1", "-", "a", ".md">> >> \in DOMAIN disk[OutRoot].files

(***************************************************************************)
(* C25: for a rule list with pairwise-distinct ids, one exportToAgent call *)
(* writes every rule to a different path.                                  *)
(***************************************************************************)
C25_DistinctPaths ==
  \A e \in 1..Len(hist) :
    (hist[e].op = "export" /\ DistinctIds(hist[e].list)) =>
      \A i, j \in 1..Len(hist[e].paths) : i # j => hist[e].paths[i] # hist[e].paths[j]

(***************************************************************************)
(* C27: after exportToAgent(listA, dir) and exportToAgent(listB, dir) into *)
(* a directory that was empty, importAgent returns what it returns for an  *)
(* export of listB alone.  As stated, for all lists (C27_Original); in the *)
(* code, when listB writes every path listA wrote (C27_NoStalePath).       *)
(***************************************************************************)
\* the events e, e + 1, e + 2 are export A, export B, import
ExportExportImport(e) ==
  /\ hist[e].op = "export" /\ hist[e].wasEmpty
  /\ hist[e + 1].op = "export" /\ hist[e + 1].dir = hist[e].dir
  /\ hist[e + 2].op = "import" /\ hist[e + 2].dir = hist[e].dir

\* what importAgent returns for listB exported into an empty directory
ImportOfAlone(dir, listB) == ImportedRules(dir, WriteRules(NoFiles, listB, Len(listB)))

C27_Original ==
  \A e \in 1..(Len(hist) - 2) :
    ExportExportImport(e) =>
      /\ ~hist[e + 2].threw
      /\ hist[e + 2].list = ImportOfAlone(hist[e].dir, hist[e + 1].list)

C27_NoStalePath ==
  \A e \in 1..(Len(hist) - 2) :
    (ExportExportImport(e) /\ Range(hist[e].paths) \subseteq Range(hist[e + 1].paths)) =>
      /\ ~hist[e + 2].threw
      /\ hist[e + 2].list = ImportOfAlone(hist[e].dir, hist[e + 1].list)

\* listB rewrote the one file of listA with another frontmatter
C27_Witness ==
  /\ Len(hist) = 3
  /\ ExportExportImport(1)
  /\ hist[1].paths = << << <<"a", ".md">> >> >>
  /\ hist[2].paths = << << <<"a", ".md">> >> >>
  /\ hist[1].list # hist[2].list
  /\ hist[3].list = ImportOfAlone(OutRoot, hist[2].list)
  /\ Len(hist[3].list) = 1

(***************************************************************************)
(* C29: exportToAgent creates or modifies files only inside                *)
(* <outputDir>/.agent, whatever the ids of the rules.                      *)
(***************************************************************************)
\* a path relative to .agent that stays in .agent
InsideAgentDir(path) == path[1] # <<"..">>

C29_WritesInsideAgentDir ==
  /\ \A e \in 1..Len(hist) :
       hist[e].op \in {"export", "exportAll"} =>
         \A i \in 1..Len(hist[e].paths) : InsideAgentDir(hist[e].paths[i])
  /\ \A p \in DOMAIN disk[OutRoot].files : InsideAgentDir(p)

(***************************************************************************)
(* C30: the privacy importAgent gives a rule depends on the frontmatter    *)
(* and on the path below the imported directory only: the same tree read   *)
(* at two places gives every rule the same metadata.private.               *)
(***************************************************************************)
C30_PrivacyIndependentOfRoot ==
  \A i, j \in 1..Len(hist) :
    (hist[i].op = "import" /\ hist[j].op = "import" /\ ~hist[i].threw /\ ~hist[j].threw
     /\ disk[hist[i].dir].files = disk[hist[j].dir].files) =>
      /\ Len(hist[i].list) = Len(hist[j].list)
      /\ \A k \in 1..Len(hist[i].list) :
           Get(hist[i].list[k].meta, "private") = Get(hist[j].list[k].meta, "private")

====
